---- MODULE Spec2Model ----
(***************************************************************************)
(* The streaming token generation engine of backend/main.py:               *)
(* GenerationRequest validation, generate_stream and the asynchronous      *)
(* generator stream_generator, one coroutine per request on a              *)
(* single-threaded event loop.  An action is the code a coroutine runs     *)
(* between two suspension points (a yield or an await).                    *)
(*                                                                         *)
(* Numbers.  Scores are float32 values; they are modelled as integer       *)
(* multiples of one unit of the representable grid, and a division rounds  *)
(* its exact quotient to the nearest grid point, ties to even, as IEEE 754 *)
(* does.  temperature and top_p are written in tenths.                     *)
(***************************************************************************)
EXTENDS Integers, Sequences, FiniteSets, TLC

(***************************************************************************)
(* Bounds of the model.                                                    *)
(***************************************************************************)
NReq == 2
VocabSize == 4
MaxNewTokens == 3
LogitSpan == 8

Reqs == 1..NReq
Vocab == 0..(VocabSize - 1)

(***************************************************************************)
(* Tokenizer collaborator.                                                 *)
(***************************************************************************)
\* tokenizer.eos_token_id
eos_token_id == 0

\* Surface forms of the first ordinary ids.
Surface == <<":", "1", ",">>

\* tokenizer.decode(next_token[0]): the text of one id, a sequence of glyphs.
\* Special tokens are not skipped, so the EOS id has a non-empty text.
decode(tok) ==
    IF tok = eos_token_id THEN <<"<|endoftext|>">>
    ELSE IF tok <= Len(Surface) THEN <<Surface[tok]>>
    ELSE <<ToString(tok)>>

Prompts == {"", "Count from 1 to 3:"}

\* tokenizer(request.prompt).input_ids: the empty text has no ids.
tokenizer(prompt) == IF prompt = "" THEN <<>> ELSE IF prompt = "," THEN <<3>> ELSE <<1>>

(***************************************************************************)
(* Model collaborator: a deterministic function from an id sequence to a   *)
(* score vector.  Four stand-ins for its fixed weights.                    *)
(***************************************************************************)
Weights == {"count", "eos", "never", "close"}

Range(s) == {s[j] : j \in DOMAIN s}

\* The id the "count" stand-in favours: "1" after the prompt, then ",", and
\* then EOS.
CountTarget(ids) ==
    IF ids[Len(ids)] = 1 THEN 2
    ELSE IF ids[Len(ids)] = 2 THEN 3
    ELSE eos_token_id

Peaked(target) == [v \in Vocab |-> IF v = target THEN 4 ELSE IF v = eos_token_id THEN -2 ELSE -4]

\* The scores the "table" stand-in returns whatever its input is.
VARIABLE table_scores

ScoreValues == (-1)..1

\* model(curr_input_ids).logits[:, -1, :]
ModelLogits(w, ids) ==
    CASE w = "count" -> Peaked(CountTarget(ids))
      [] w = "eos"   -> Peaked(eos_token_id)
      [] w = "never" -> [v \in Vocab |-> IF v = eos_token_id THEN -4 ELSE IF v < 4 THEN v ELSE 0]
      [] w = "table" -> table_scores
      [] OTHER       -> [v \in Vocab |-> IF v = 2 THEN 2 ELSE IF v = 1 THEN 1 ELSE -2]

(***************************************************************************)
(* Arithmetic of the step.                                                 *)
(***************************************************************************)
\* n / d for d > 0, rounded to the nearest integer, ties to even.
RoundDiv(n, d) ==
    LET q == n \div d
        r == n % d
    IN  IF 2 * r < d THEN q
        ELSE IF 2 * r > d THEN q + 1
        ELSE IF q % 2 = 0 THEN q ELSE q + 1

\* next_token_logits / request.temperature   (temperature in tenths)
ApplyTemperature(logits, temperature) ==
    [v \in Vocab |-> RoundDiv(10 * logits[v], temperature)]

argmaxLast(logits) ==
    CHOOSE v \in Vocab :
        /\ \A u \in Vocab : logits[u] <= logits[v]
        /\ \A u \in Vocab : logits[u] = logits[v] => u <= v
\* torch.argmax: the first index holding the maximum.
argmax(logits) ==
    CHOOSE v \in Vocab :
        /\ \A u \in Vocab : logits[u] <= logits[v]
        /\ \A u \in Vocab : logits[u] = logits[v] => v <= u

Min(a, b) == IF a <= b THEN a ELSE b

\* torch.topk(next_token_logits, top_k)[0][..., -1, None]: the k-th largest
\* score, counted with multiplicity (k >= 1).
KthLargest(logits, k) ==
    CHOOSE x \in Range(logits) :
        /\ Cardinality({v \in Vocab : logits[v] > x}) < k
        /\ Cardinality({v \in Vocab : logits[v] >= x}) >= k

TopKKeepAbove(logits, top_k) ==
    LET k == Min(top_k, VocabSize)
    IN  {v \in Vocab : logits[v] > KthLargest(logits, k)}
\* The ids left unmasked by the top_k branch (k = min(top_k, vocab) >= 1):
\* every score below the k-th largest becomes -Inf.
TopKKeep(logits, top_k) ==
    LET k == Min(top_k, VocabSize)
    IN  {v \in Vocab : ~(logits[v] < KthLargest(logits, k))}

\* torch.topk(..., 0)[0][..., -1, None] indexes an empty dimension.
TopKRaises(top_k) == Min(top_k, VocabSize) = 0

RECURSIVE Pow2(_)
Pow2(n) == IF n <= 0 THEN 1 ELSE 2 * Pow2(n - 1)

\* The unnormalised softmax weight of a score; the unit of the score grid is
\* taken as ln 2.  Every score of a step lies in -LogitSpan..LogitSpan.
SoftmaxWeight(x) == Pow2(x + LogitSpan)

\* torch.sort(next_token_logits, descending=True): the orders of the ids the
\* sort may return (the sort is not stable: tied scores come in any order).
SortedOrders(logits) ==
    {s \in [1..VocabSize -> Vocab] :
        /\ \A a, b \in 1..VocabSize : a # b => s[a] # s[b]
        /\ \A a \in 1..(VocabSize - 1) : logits[s[a]] >= logits[s[a + 1]]}

RECURSIVE CumWeight(_, _, _)
\* torch.cumsum over the sorted softmax, up to position j (unnormalised).
CumWeight(logits, s, j) ==
    IF j = 0 THEN 0 ELSE SoftmaxWeight(logits[s[j]]) + CumWeight(logits, s, j - 1)

SortedRemoveAtLeast(logits, s, top_p, j) ==
    10 * CumWeight(logits, s, j) >= top_p * CumWeight(logits, s, VocabSize)
\* sorted_indices_to_remove = cumulative_probs > request.top_p, at position j
\* of the sorted order (top_p in tenths).
SortedRemove(logits, s, top_p, j) ==
    10 * CumWeight(logits, s, j) > top_p * CumWeight(logits, s, VocabSize)

KeepFirstSkipped(removed) == removed
\* sorted_indices_to_remove[..., 0] = 0
KeepFirst(removed) == FALSE

\* The ids left unmasked by the top_p branch for one sorted order: the removal
\* flags are shifted one position to the right, the first flag is cleared, and
\* the flagged positions become -Inf.
TopPKeep(logits, s, top_p) ==
    {s[j] : j \in {j \in 1..VocabSize :
        ~(IF j = 1 THEN KeepFirst(SortedRemove(logits, s, top_p, 1))
                   ELSE SortedRemove(logits, s, top_p, j - 1))}}

\* The sets of ids the strategy branch can leave unmasked in the scores (the
\* greedy branch and the else branch mask nothing).
KeepSets(strategy, logits, top_k, top_p) ==
    CASE strategy = "top_k" -> {TopKKeep(logits, top_k)}
      [] strategy = "top_p" -> {TopPKeep(logits, s, top_p) : s \in SortedOrders(logits)}
      [] OTHER              -> {Vocab}

FallbackSamples(logits) == Vocab
\* else: next_token = torch.argmax(next_token_logits, dim=-1)
Fallback(logits) == {argmax(logits)}

SampleWithResidue(strategy, logits, keep) ==
    CASE strategy = "greedy" -> {argmax(logits)}
      [] strategy = "top_k"  -> Vocab
      [] strategy = "top_p"  -> Vocab
      [] OTHER               -> Fallback(logits)
\* The ids the strategy branch can return once keep is left unmasked:
\* torch.multinomial draws any id of non-zero probability.
Sample(strategy, logits, keep) ==
    CASE strategy = "greedy" -> {argmax(logits)}
      [] strategy = "top_k"  -> keep
      [] strategy = "top_p"  -> keep
      [] OTHER               -> Fallback(logits)

\* The ids the strategy branch can return for the temperature-scaled scores.
Candidates(strategy, logits, top_k, top_p) ==
    UNION {Sample(strategy, logits, keep) : keep \in KeepSets(strategy, logits, top_k, top_p)}

(***************************************************************************)
(* GenerationRequest.                                                      *)
(***************************************************************************)
MaxNewTokensLimit == 2000
TemperatureMin == 1
TemperatureMax == 20
TopKMin == 0
TopPMin == 0
TopPMax == 10

Strategies == {"greedy", "top_k", "top_p", "beam"}
\* The id of the model loaded as GPT2_MODEL, and an id no loaded model has.
LoadedModelId == "gpt2"
ModelIds == {LoadedModelId, "no-such-model"}
Temperatures == {0, 5, 10, 15}
TopKs == {-1, 0, 1, VocabSize + 1}
TopPs == {0, 5, 10, 11}

GenerationRequests ==
    [prompt : Prompts, model_id : ModelIds, max_new_tokens : (-1)..MaxNewTokens,
     temperature : Temperatures, top_k : TopKs, top_p : TopPs, strategy : Strategies]

\* The Field constraints of GenerationRequest, checked by the framework
\* before generate_stream runs.
Validates(body) ==
    /\ body.max_new_tokens <= MaxNewTokensLimit
    /\ body.temperature >= TemperatureMin
    /\ body.temperature <= TemperatureMax
    /\ body.top_k >= TopKMin
    /\ body.top_p >= TopPMin
    /\ body.top_p <= TopPMax

NoRequest == [prompt |-> "", model_id |-> "gpt2", max_new_tokens |-> 0,
              temperature |-> 10, top_k |-> 1, top_p |-> 10, strategy |-> "greedy"]

(***************************************************************************)
(* lsat_logic: the analysis cache, the example index and the LLM calls.    *)
(***************************************************************************)
MaxLines == 2

\* question_data: two questions, each in two copies that differ in a field
\* the cache key does not read.
Questions == [context : {"c"}, question : {"q1", "q2"}, options : {"o"}, answer : {"A", "B"}]

\* CacheManager.get_cache_key: the digest of context, question and options.
get_cache_key(data) == <<data.context, data.question, data.options>>

Keys == {get_cache_key(q) : q \in Questions}

\* What a cache file holds for a key: nothing, or the analysis saved last: a
\* JSON object with members, the empty JSON object, or the wrapper
\* {"raw_response": ..., "parse_error": True}.
Absent == "absent"

\* CacheManager.load_from_cache: None when there is no file.
load_from_cache(files, key) == files[key]

\* CacheManager.save_to_cache
save_to_cache(files, key, data) == [files EXCEPT ![key] = data]

\* PatternRAG.add_example: one entry per cache key.
add_example(index, key) == index \cup {key}

\* `if cached:` -- None and the empty dict are false.
Truthy(value) == value \notin {Absent, "empty_object"}

\* The texts of the LLM, as sequences of glyphs: "a" stands for a member of
\* a JSON object and "x" for prose.
Contents == {<<"{", "a", "}">>, <<"{", "}">>, <<"x">>}

\* The lines of the upstream response once split: a text record, a
\* 'complete' record, an 'error' record, or a line that is skipped (blank,
\* not JSON, or of another type).
TextLine(c) == [type |-> "text", content |-> c]
UpstreamLines ==
    {TextLine(c) : c \in Contents}
        \cup {[type |-> "complete"], [type |-> "error", content |-> "upstream"], [type |-> "skip"]}

\* re.search(r'\{[\s\S]*\}', text): from the first "{" to the last "}" after
\* it; the text itself when there is no match.
JsonMatch(text) ==
    LET opens == {i \in 1..Len(text) : text[i] = "{"}
        closes == {j \in 1..Len(text) : text[j] = "}"}
    IN  IF opens = {} \/ closes = {} THEN text
        ELSE LET i == CHOOSE i \in opens : \A k \in opens : i <= k
                 j == CHOOSE j \in closes : \A k \in closes : k <= j
             IN  IF i < j THEN SubSeq(text, i, j) ELSE text

\* json.loads: the value, or "invalid" when it raises.
json_loads(text) ==
    IF text = <<"{", "a", "}">> THEN "object"
    ELSE IF text = <<"{", "}">> THEN "empty_object"
    ELSE "invalid"

\* No call of the LSAT service has been made.
NoCall == [op |-> "none", pc |-> "idle", key |-> <<>>, use_cache |-> FALSE,
           after_completed |-> FALSE, lines |-> 0, full_text |-> <<>>, records |-> <<>>,
           from_cache |-> FALSE, llm_called |-> FALSE, llm_error |-> FALSE, wrote |-> FALSE]

\* No cache file, an empty example index, no call made yet.
LsatIdle ==
    [cache |-> [k \in Keys |-> Absent], examples |-> {}, completed |-> {}, call |-> NoCall]

(***************************************************************************)
(* State.                                                                  *)
(***************************************************************************)
VARIABLES
    GPT2_MODEL,      \* "None", or the weights of the model loaded at start-up
    request,         \* request[r]: the GenerationRequest of r
    pc,              \* pc[r]: where the handling of r stands
    curr_input_ids,  \* curr_input_ids[r]: the local of stream_generator
    next_token,      \* next_token[r]: the local of stream_generator
    iter,            \* iter[r]: iterations of the for loop begun
    out,             \* out[r]: the records the generator has yielded
    calls,           \* calls[r]: the inputs of the forward passes, in order
    chosen,          \* chosen[r]: the ids the strategy branch returned, in order
    unmasked,        \* unmasked[r]: the ids the last strategy branch left unmasked
    raised_by,       \* raised_by[r]: the call whose exception left the generator
    prob,            \* the ProbabilityRequest and where its handling stands
    lsat             \* lsat_logic: the cache files, the example index, the calls

vars == <<GPT2_MODEL, request, pc, curr_input_ids, next_token, iter, out, calls,
          chosen, unmasked, raised_by, prob, table_scores, lsat>>

Suspended == {"created", "yield_error", "yield_token", "sleep", "yield_final"}

TokenEventFinished(tok) == [token |-> decode(tok), finished |-> TRUE]
TokenEvent(tok) == [token |-> decode(tok), finished |-> FALSE]

FinalEventUnfinished == [token |-> <<>>, finished |-> FALSE]
FinalEventWithText == [token |-> <<"<|endoftext|>">>, finished |-> TRUE]
FinalEvent == [token |-> <<>>, finished |-> TRUE]
ErrorRecord == [error |-> "Model not loaded"]

IsFinal(e) == "finished" \in DOMAIN e /\ e.finished
IsToken(e) == "finished" \in DOMAIN e /\ ~e.finished
IsError(e) == "error" \in DOMAIN e

\* The generation requests in active, each with a body of requests.
InitWith(active, requests) ==
    /\ \E q \in [active -> requests] :
          request = [r \in Reqs |-> IF r \in active THEN q[r] ELSE NoRequest]
    /\ pc = [r \in Reqs |-> IF r \in active THEN "received" ELSE "absent"]
    /\ curr_input_ids = [r \in Reqs |-> <<>>]
    /\ next_token = [r \in Reqs |-> -1]
    /\ iter = [r \in Reqs |-> 0]
    /\ out = [r \in Reqs |-> <<>>]
    /\ calls = [r \in Reqs |-> <<>>]
    /\ chosen = [r \in Reqs |-> <<>>]
    /\ unmasked = [r \in Reqs |-> Vocab]
    /\ raised_by = [r \in Reqs |-> "nothing"]
    /\ lsat = LsatIdle

\* GPT2_MODEL = initialize_model("gpt2"): None when loading failed.
StartUp == GPT2_MODEL \in {"None"} \cup Weights /\ table_scores = [v \in Vocab |-> 0]
NoProbabilityRequest == prob = [pc |-> "absent", prompt |-> ""]

Init == StartUp /\ InitWith({1}, GenerationRequests) /\ NoProbabilityRequest

\* The requests of the fair specification: every prompt, strategy and step
\* budget, with fewer values of the other fields.
FairRequests ==
    {q \in GenerationRequests :
        /\ q.model_id = LoadedModelId
        /\ q.temperature \in {5, 15}
        /\ q.top_k \in {0, VocabSize + 1}
        /\ q.top_p = 5}

FairInit == StartUp /\ InitWith({1}, FairRequests) /\ NoProbabilityRequest

\* The requests of the filter specification: one step on every table of
\* scores, with every strategy name, a name that is none of them, and every
\* top_k from 0 to beyond the vocabulary; under a recognized strategy only
\* the parameter its branch reads varies.
FilterStrategies == Strategies \cup {"sample"}

FilterRequests ==
    {q \in [prompt : {"Count from 1 to 3:"}, model_id : {LoadedModelId}, max_new_tokens : {1},
            temperature : {5, 10}, top_k : 0..(VocabSize + 1), top_p : {0, 5, 10},
            strategy : FilterStrategies] :
        /\ q.strategy \in {"greedy", "top_p"} => q.top_k = 1
        /\ q.strategy \in {"greedy", "top_k"} => q.top_p = 10}

\* The requests of the concurrent specification: two prompts of different
\* ids, one or two steps, greedy or sampling among the two best ids.
ConcRequests ==
    [prompt : {"Count from 1 to 3:", ","}, model_id : {LoadedModelId}, max_new_tokens : {1, 2},
     temperature : {10}, top_k : {2}, top_p : {5}, strategy : {"greedy", "top_k"}]

\* Two generation requests and one probabilities request are in flight.
ConcInit ==
    /\ StartUp
    /\ InitWith({1, 2}, ConcRequests)
    /\ prob \in [pc : {"received"}, prompt : Prompts]

\* a and b differ at most in parameters their strategy does not read: top_k
\* and top_p under greedy, top_p under top_k, top_k under top_p.
DifferOnlyIrrelevant(a, b) ==
    /\ a.strategy = b.strategy
    /\ a.prompt = b.prompt
    /\ a.model_id = b.model_id
    /\ a.max_new_tokens = b.max_new_tokens
    /\ a.temperature = b.temperature
    /\ a.strategy = "top_k" => a.top_k = b.top_k
    /\ a.strategy = "top_p" => a.top_p = b.top_p

\* The requests of the pair specification: the three strategies that filter
\* or not, with values of top_k and top_p inside and outside their ranges.
PairRequests ==
    [prompt : {"Count from 1 to 3:"}, model_id : {LoadedModelId}, max_new_tokens : {1, 2},
     temperature : {10}, top_k : {-1, 1, 2}, top_p : {5, 10, 11},
     strategy : {"greedy", "top_k", "top_p"}]

\* The requests of the fair concurrent specification: one or two steps,
\* greedy or sampling among the two best ids.
FairConcRequests ==
    [prompt : {"Count from 1 to 3:"}, model_id : {LoadedModelId}, max_new_tokens : {1, 2},
     temperature : {10}, top_k : {2}, top_p : {5}, strategy : {"greedy", "top_k"}]

FairConcInit == StartUp /\ InitWith({1, 2}, FairConcRequests) /\ NoProbabilityRequest

\* Two requests that differ at most in strategy-irrelevant parameters.
PairInit ==
    /\ StartUp
    /\ InitWith({1, 2}, PairRequests)
    /\ DifferOnlyIrrelevant(request[1], request[2])
    /\ NoProbabilityRequest

FilterInit ==
    /\ GPT2_MODEL = "table"
    /\ table_scores \in [Vocab -> ScoreValues]
    /\ InitWith({1}, FilterRequests)
    /\ NoProbabilityRequest

(***************************************************************************)
(* stream_generator, from one suspension point to the next.                *)
(***************************************************************************)
ModelMissingNever(m) == FALSE
\* if not GPT2_MODEL
ModelMissing(m) == m = "None"

LoopFreeAlways == TRUE
\* The handlers are coroutines of one event loop and the forward pass is a
\* synchronous call: while one is in progress the loop runs nothing else.
LoopFree == (\A q \in Reqs : pc[q] # "forward") /\ prob.pc # "forward"

LoopContinuesOnceMore(i, max_new_tokens) == i <= max_new_tokens
\* for _ in range(request.max_new_tokens): another iteration begins.
LoopContinues(i, max_new_tokens) == i < max_new_tokens

StopsNever(tok) == FALSE
\* if next_token.item() == tokenizer.eos_token_id: break
StopsAtEOS(tok) == tok = eos_token_id

YieldFirst(records, rec) == <<rec>> \o records
\* yield: the record is handed to the caller, after those yielded before.
Yield(records, rec) == Append(records, rec)

catFront(ids_of, r, tok) == [ids_of EXCEPT ![r] = <<tok>> \o @]
catShared(ids_of, r, tok) == [q \in DOMAIN ids_of |-> Append(ids_of[q], tok)]
\* curr_input_ids = torch.cat([curr_input_ids, next_token], dim=-1), on the
\* local of the generator of r.
cat(ids_of, r, tok) == [ids_of EXCEPT ![r] = Append(@, tok)]

RaiseRetries(r, by) == pc' = [pc EXCEPT ![r] = "sleep"] /\ UNCHANGED raised_by
\* An exception of the call named by leaves the generator: nothing in
\* stream_generator catches it.
Raise(r, by) ==
    /\ pc' = [pc EXCEPT ![r] = "raised"]
    /\ raised_by' = [raised_by EXCEPT ![r] = by]

\* The yield after the loop.
YieldFinal(r) ==
    /\ out' = [out EXCEPT ![r] = Yield(@, FinalEvent)]
    /\ pc' = [pc EXCEPT ![r] = "yield_final"]

\* The loop from its head, with ids as curr_input_ids: either the loop is
\* over and the last record is yielded, or the forward pass begins.
LoopHead(r, ids) ==
    IF ~LoopContinues(iter[r], request[r].max_new_tokens)
    THEN /\ YieldFinal(r)
         /\ UNCHANGED <<iter, calls>>
    ELSE /\ iter' = [iter EXCEPT ![r] = @ + 1]
         /\ calls' = [calls EXCEPT ![r] = Append(@, ids)]
         /\ pc' = [pc EXCEPT ![r] = "forward"]
         /\ UNCHANGED out

\* The framework validates the body and calls generate_stream, which wraps
\* the generator (not yet started) in a StreamingResponse.
generate_stream(r) ==
    /\ LoopFree
    /\ pc[r] = "received"
    /\ pc' = [pc EXCEPT ![r] = IF Validates(request[r]) THEN "created" ELSE "rejected"]
    /\ UNCHANGED <<GPT2_MODEL, request, curr_input_ids, next_token, iter, out, calls,
                   chosen, unmasked, raised_by, prob, table_scores, lsat>>

\* The first resumption: the model check, the tokenizer call and the head of
\* the loop.
Start(r) ==
    /\ LoopFree
    /\ pc[r] = "created"
    /\ IF ModelMissing(GPT2_MODEL)
       THEN /\ out' = [out EXCEPT ![r] = Yield(@, ErrorRecord)]
            /\ pc' = [pc EXCEPT ![r] = "yield_error"]
            /\ UNCHANGED <<curr_input_ids, iter, calls>>
       ELSE /\ curr_input_ids' = [curr_input_ids EXCEPT ![r] = tokenizer(request[r].prompt)]
            /\ LoopHead(r, tokenizer(request[r].prompt))
    /\ UNCHANGED <<GPT2_MODEL, request, next_token, chosen, unmasked, raised_by, prob, table_scores, lsat>>

\* The forward pass on curr_input_ids and the rest of the iteration up to the
\* yield of the token, or to the exception that leaves the generator.
Forward(r) ==
    /\ pc[r] = "forward"
    /\ \E raises \in BOOLEAN :
         IF raises \/ curr_input_ids[r] = <<>>
         THEN /\ Raise(r, "model")
              /\ UNCHANGED <<out, chosen, next_token, unmasked>>
         ELSE IF request[r].strategy = "top_k" /\ TopKRaises(request[r].top_k)
         THEN /\ Raise(r, "topk")
              /\ UNCHANGED <<out, chosen, next_token, unmasked>>
         ELSE LET logits == ApplyTemperature(ModelLogits(GPT2_MODEL, curr_input_ids[r]),
                                             request[r].temperature)
              IN  \E keep \in KeepSets(request[r].strategy, logits,
                                       request[r].top_k, request[r].top_p) :
                     /\ unmasked' = [unmasked EXCEPT ![r] = keep]
                     /\ IF Sample(request[r].strategy, logits, keep) = {}
                        THEN /\ Raise(r, "multinomial")
                             /\ UNCHANGED <<out, chosen, next_token>>
                        ELSE \E tok \in Sample(request[r].strategy, logits, keep) :
                                /\ next_token' = [next_token EXCEPT ![r] = tok]
                                /\ chosen' = [chosen EXCEPT ![r] = Append(@, tok)]
                                /\ out' = [out EXCEPT ![r] = Yield(@, TokenEvent(tok))]
                                /\ pc' = [pc EXCEPT ![r] = "yield_token"]
                                /\ UNCHANGED raised_by
    /\ UNCHANGED <<GPT2_MODEL, request, curr_input_ids, iter, calls, prob, table_scores, lsat>>

\* Resumed after the yield of a token: the id is appended, then the EOS test
\* either leaves the loop or reaches asyncio.sleep(0).
AfterToken(r) ==
    /\ LoopFree
    /\ pc[r] = "yield_token"
    /\ curr_input_ids' = cat(curr_input_ids, r, next_token[r])
    /\ IF StopsAtEOS(next_token[r])
       THEN YieldFinal(r)
       ELSE /\ pc' = [pc EXCEPT ![r] = "sleep"]
            /\ UNCHANGED out
    /\ UNCHANGED <<GPT2_MODEL, request, next_token, iter, calls, chosen, unmasked,
                   raised_by, prob, table_scores, lsat>>

AfterSleepNever(r) == pc[r] = "sleep" /\ FALSE /\ UNCHANGED vars
\* Resumed after asyncio.sleep(0): the next iteration.
AfterSleep(r) ==
    /\ LoopFree
    /\ pc[r] = "sleep"
    /\ LoopHead(r, curr_input_ids[r])
    /\ UNCHANGED <<GPT2_MODEL, request, curr_input_ids, next_token, chosen, unmasked,
                   raised_by, prob, table_scores, lsat>>

\* Resumed after the last yield, or after the yield of the error record: the
\* generator returns.
Return(r) ==
    /\ LoopFree
    /\ pc[r] \in {"yield_final", "yield_error"}
    /\ pc' = [pc EXCEPT ![r] = "done"]
    /\ UNCHANGED <<GPT2_MODEL, request, curr_input_ids, next_token, iter, out, calls,
                   chosen, unmasked, raised_by, prob, table_scores, lsat>>

\* The caller goes away while the generator is suspended: the response task
\* is cancelled and the generator is closed where it stands.  stream_generator
\* has no try/finally, so nothing more runs in it.
Cancel(r) ==
    /\ LoopFree
    /\ pc[r] \in Suspended
    /\ pc' = [pc EXCEPT ![r] = "cancelled"]
    /\ UNCHANGED <<GPT2_MODEL, request, curr_input_ids, next_token, iter, out, calls,
                   chosen, unmasked, raised_by, prob, table_scores, lsat>>

Drive ==
    \/ \E r \in Reqs : generate_stream(r)
    \/ \E r \in Reqs : Start(r)
    \/ \E r \in Reqs : Forward(r)
    \/ \E r \in Reqs : AfterToken(r)
    \/ \E r \in Reqs : AfterSleep(r)
    \/ \E r \in Reqs : Return(r)

Next ==
    \/ Drive
    \/ \E r \in Reqs : Cancel(r)

Spec == Init /\ [][Next]_vars

\* The caller reads the stream to its end and the event loop keeps running
\* every ready coroutine.
FairSpec == FairInit /\ [][Drive]_vars /\ WF_vars(Drive)

\* get_token_probabilities up to the model call: the model check, the prompt
\* check and the tokenizer call.
get_token_probabilities ==
    /\ LoopFree
    /\ prob.pc = "received"
    /\ prob' = [prob EXCEPT !.pc = IF ModelMissing(GPT2_MODEL) THEN "http_503"
                                   ELSE IF prob.prompt = "" THEN "http_400"
                                   ELSE "forward"]
    /\ UNCHANGED <<GPT2_MODEL, request, pc, curr_input_ids, next_token, iter, out, calls,
                   chosen, unmasked, raised_by, table_scores, lsat>>

\* The model call of get_token_probabilities and the rest of the handler:
\* the response, or the HTTPException made of any exception.
ProbabilitiesForward ==
    /\ prob.pc = "forward"
    /\ \E raises \in BOOLEAN :
          prob' = [prob EXCEPT !.pc = IF raises THEN "http_500" ELSE "responded"]
    /\ UNCHANGED <<GPT2_MODEL, request, pc, curr_input_ids, next_token, iter, out, calls,
                   chosen, unmasked, raised_by, table_scores, lsat>>

ConcNext ==
    \/ Next
    \/ get_token_probabilities
    \/ ProbabilitiesForward

\* Two streams and a probabilities request served by one event loop.
ConcSpec == ConcInit /\ [][ConcNext]_vars

\* The steps of the handling of r.
DriveOf(r) ==
    \/ generate_stream(r)
    \/ Start(r)
    \/ Forward(r)
    \/ AfterToken(r)
    \/ AfterSleep(r)
    \/ Return(r)

\* Two streams read to their ends by their callers, on an event loop that
\* keeps running every coroutine that is ready: after a yield or
\* asyncio.sleep(0) the coroutine is rescheduled behind the others.
FairConcSpec ==
    FairConcInit /\ [][Drive]_vars /\ \A r \in Reqs : WF_vars(DriveOf(r))

\* Two streams whose requests differ at most in irrelevant parameters.
PairSpec == PairInit /\ [][Next]_vars

\* One step of a stream read to its end, on every table of scores.
FilterSpec == FilterInit /\ [][Drive]_vars

(***************************************************************************)
(* LSATService.analyze_pattern and analyze_pattern_stream.                 *)
(***************************************************************************)
genvars == <<GPT2_MODEL, request, pc, curr_input_ids, next_token, iter, out, calls,
             chosen, unmasked, raised_by, prob, table_scores>>

\* A call of op begins for question_data: the summary of the call.
Begin(op, question_data, use_cache) ==
    [NoCall EXCEPT !.op = op, !.key = get_cache_key(question_data), !.use_cache = use_cache,
                   !.after_completed = get_cache_key(question_data) \in lsat.completed]

\* analyze_pattern up to the await of call_claude_sync: the cached analysis
\* is returned, or the LLM call begins; fails stands for httpx missing, a
\* status other than 200 or an exception of the request.
analyze_pattern(question_data, use_cache, fails) ==
    LET cache_key == get_cache_key(question_data)
        cached == load_from_cache(lsat.cache, cache_key)
        call == Begin("analyze_pattern", question_data, use_cache)
    IN  /\ lsat.call.pc \in {"idle", "done"}
        /\ lsat' =
             IF use_cache /\ Truthy(cached)
             THEN [lsat EXCEPT !.completed = @ \cup {cache_key},
                               !.call = [call EXCEPT !.pc = "done", !.from_cache = TRUE]]
             ELSE IF fails
             THEN [lsat EXCEPT !.call = [call EXCEPT !.pc = "done", !.llm_called = TRUE,
                                                    !.llm_error = TRUE]]
             ELSE [lsat EXCEPT !.call = [call EXCEPT !.pc = "reading", !.llm_called = TRUE]]
        /\ UNCHANGED genvars

\* One line of the upstream response in call_claude_sync: text is
\* accumulated, an 'error' line makes analyze_pattern return the error at
\* once, every other line is passed over.
SyncLine(line) ==
    /\ lsat.call.op = "analyze_pattern"
    /\ lsat.call.pc = "reading"
    /\ lsat.call.lines < MaxLines
    /\ lsat' = [lsat EXCEPT !.call =
          IF line.type = "text"
          THEN [@ EXCEPT !.lines = @ + 1, !.full_text = @ \o line.content]
          ELSE IF line.type = "error"
          THEN [@ EXCEPT !.lines = @ + 1, !.pc = "done", !.llm_error = TRUE]
          ELSE [@ EXCEPT !.lines = @ + 1]]
    /\ UNCHANGED genvars

\* The upstream response ends: call_claude_sync returns the text, and
\* analyze_pattern parses it, stores the analysis and returns it.
SyncEnd ==
    /\ lsat.call.op = "analyze_pattern"
    /\ lsat.call.pc = "reading"
    /\ LET parsed == json_loads(JsonMatch(lsat.call.full_text))
           analysis == IF parsed = "invalid" THEN "raw_response" ELSE parsed
       IN  lsat' = [lsat EXCEPT !.cache = save_to_cache(@, lsat.call.key, analysis),
                                !.examples = add_example(@, lsat.call.key),
                                !.completed = @ \cup {lsat.call.key},
                                !.call = [@ EXCEPT !.pc = "done", !.wrote = TRUE]]
    /\ UNCHANGED genvars

\* An exception while the upstream response is read: call_claude_sync
\* returns an error and analyze_pattern returns it.
SyncRaise ==
    /\ lsat.call.op = "analyze_pattern"
    /\ lsat.call.pc = "reading"
    /\ lsat' = [lsat EXCEPT !.call = [@ EXCEPT !.pc = "done", !.llm_error = TRUE]]
    /\ UNCHANGED genvars

\* analyze_pattern_stream up to its first yield: the cached record, the error
\* record of a call that cannot be made, or the upstream response is open.
analyze_pattern_stream(question_data, use_cache, fails) ==
    LET cache_key == get_cache_key(question_data)
        cached == load_from_cache(lsat.cache, cache_key)
        call == Begin("analyze_pattern_stream", question_data, use_cache)
    IN  /\ lsat.call.pc \in {"idle", "done"}
        /\ lsat' = [lsat EXCEPT !.call =
             IF use_cache /\ Truthy(cached)
             THEN [call EXCEPT !.pc = "done", !.from_cache = TRUE,
                               !.records = <<[type |-> "cached", analysis |-> cached]>>]
             ELSE IF fails
             THEN [call EXCEPT !.pc = "done", !.llm_called = TRUE, !.llm_error = TRUE,
                               !.records = <<[type |-> "error", content |-> "failed"]>>]
             ELSE [call EXCEPT !.pc = "reading", !.llm_called = TRUE]]
        /\ UNCHANGED genvars

\* One line of the upstream response in call_claude_streaming, and the
\* forwarding of what it yields by analyze_pattern_stream.
StreamLine(line) ==
    /\ lsat.call.op = "analyze_pattern_stream"
    /\ lsat.call.pc = "reading"
    /\ lsat.call.lines < MaxLines
    /\ lsat' = [lsat EXCEPT !.call =
          IF line.type = "text"
          THEN [@ EXCEPT !.lines = @ + 1, !.full_text = @ \o line.content,
                         !.records = Append(@, line)]
          ELSE IF line.type \in {"complete", "error"}
          THEN [@ EXCEPT !.lines = @ + 1, !.records = Append(@, line),
                         !.llm_error = @ \/ line.type = "error"]
          ELSE [@ EXCEPT !.lines = @ + 1]]
    /\ UNCHANGED genvars

\* The end of a stream: analyze_pattern_stream parses the text it has
\* gathered, if any, and stores the analysis when json.loads accepts it.
StreamStored(call) ==
    LET parsed == json_loads(JsonMatch(call.full_text))
        stores == call.full_text # <<>> /\ parsed # "invalid"
    IN  [lsat EXCEPT !.cache = IF stores THEN save_to_cache(@, call.key, parsed) ELSE @,
                     !.examples = IF stores THEN add_example(@, call.key) ELSE @,
                     !.call = [call EXCEPT !.pc = "done", !.wrote = stores]]

\* The upstream response ends: call_claude_streaming yields its own
\* 'complete' record when any text came.
StreamEnd ==
    /\ lsat.call.op = "analyze_pattern_stream"
    /\ lsat.call.pc = "reading"
    /\ lsat' = StreamStored(
          IF lsat.call.full_text # <<>>
          THEN [lsat.call EXCEPT !.records =
                   Append(@, [type |-> "complete", full_text |-> lsat.call.full_text])]
          ELSE lsat.call)
    /\ UNCHANGED genvars

\* An exception while the upstream response is read: call_claude_streaming
\* yields an 'error' record and ends.
StreamRaise ==
    /\ lsat.call.op = "analyze_pattern_stream"
    /\ lsat.call.pc = "reading"
    /\ lsat' = StreamStored([lsat.call EXCEPT !.llm_error = TRUE,
                                !.records = Append(@, [type |-> "error", content |-> "raised"])])
    /\ UNCHANGED genvars

LsatInit ==
    /\ GPT2_MODEL = "None"
    /\ table_scores = [v \in Vocab |-> 0]
    /\ InitWith({}, GenerationRequests)
    /\ NoProbabilityRequest

LsatNext ==
    \/ \E q \in Questions, use_cache, fails \in BOOLEAN : analyze_pattern(q, use_cache, fails)
    \/ \E line \in UpstreamLines : SyncLine(line)
    \/ SyncEnd
    \/ SyncRaise
    \/ \E q \in Questions, use_cache, fails \in BOOLEAN : analyze_pattern_stream(q, use_cache, fails)
    \/ \E line \in UpstreamLines : StreamLine(line)
    \/ StreamEnd
    \/ StreamRaise

\* The calls of the LSAT service, one after the other.
LsatSpec == LsatInit /\ [][LsatNext]_vars

(***************************************************************************)
(* Properties of the stream.                                               *)
(***************************************************************************)
TokenEvents(records) == SelectSeq(records, IsToken)
FinalEvents(records) == SelectSeq(records, IsFinal)
HasFinal(records) == FinalEvents(records) # <<>>
Last(s) == s[Len(s)]
Max0(n) == IF n >= 0 THEN n ELSE 0

RECURSIVE Concat(_)
\* The concatenation of a sequence of texts.
Concat(texts) == IF texts = <<>> THEN <<>> ELSE texts[1] \o Concat(Tail(texts))

TextOf(records) == Concat([j \in 1..Len(records) |-> records[j].token])
DecodeAll(ids) == Concat([j \in 1..Len(ids) |-> decode(ids[j])])

C2_OneFinalLast ==
    \A r \in Reqs :
        /\ \A j \in 1..Len(out[r]) : IsFinal(out[r][j]) => j = Len(out[r])
        /\ (pc[r] = "done" /\ GPT2_MODEL # "None") =>
              /\ out[r] # <<>>
              /\ IsFinal(Last(out[r]))
              /\ Len(FinalEvents(out[r])) = 1

\* A stream stopped early by EOS, with budget left, has ended.
C2_Witness ==
    \E r \in Reqs :
        /\ pc[r] = "done"
        /\ Len(chosen[r]) >= 2
        /\ Last(chosen[r]) = eos_token_id
        /\ iter[r] < request[r].max_new_tokens

\* C3: when the model produces k ordinary ids and then the EOS id, the ended
\* stream has exactly k + 1 events, the k token events and then the terminal
\* one, and the concatenated text is that of the k ordinary ids.
C3_EOSStreamShape ==
    \A r \in Reqs :
        (pc[r] = "done" /\ chosen[r] # <<>> /\ Last(chosen[r]) = eos_token_id) =>
            LET k == Len(chosen[r]) - 1
            IN  /\ Len(out[r]) = k + 1
                /\ Len(TokenEvents(out[r])) = k
                /\ IsFinal(Last(out[r]))
                /\ TextOf(out[r]) = DecodeAll(SubSeq(chosen[r], 1, k))

\* C4: a generation cancelled after step n has yielded n events with
\* finished = false and then one terminal event.
C4_CancelYieldsFinal ==
    \A r \in Reqs :
        (pc[r] = "cancelled" /\ chosen[r] # <<>>) =>
            /\ Len(TokenEvents(out[r])) = Len(chosen[r])
            /\ Len(FinalEvents(out[r])) = 1
            /\ IsFinal(Last(out[r]))

\* C5: a stream that is over ends with the terminal event or with an error
\* record, and with an error record when a step raised.
C5_NeverSilent ==
    \A r \in Reqs :
        /\ pc[r] \in {"done", "raised"} =>
              /\ out[r] # <<>>
              /\ (IsFinal(Last(out[r])) \/ IsError(Last(out[r])))
        /\ pc[r] = "raised" => (out[r] # <<>> /\ IsError(Last(out[r])))

\* C6: the i-th event of a stream carries the text of the id chosen at step
\* i; every completed step has exactly one event, and the token events come
\* before any other record.
C6_FIFO ==
    \A r \in Reqs :
        LET events == TokenEvents(out[r])
        IN  /\ Len(events) = Len(chosen[r])
            /\ Len(chosen[r]) = iter[r] - (IF pc[r] \in {"raised", "forward"} THEN 1 ELSE 0)
            /\ \A j \in 1..Len(events) :
                  /\ out[r][j] = events[j]
                  /\ events[j].token = decode(chosen[r][j])

\* Three steps that chose three different ids have been delivered.
C6_Witness ==
    \E r \in Reqs :
        /\ Len(chosen[r]) >= 3
        /\ Cardinality({chosen[r][j] : j \in 1..3}) = 3
        /\ Len(TokenEvents(out[r])) = Len(chosen[r])

\* C7: when step 1 chooses the EOS id, the generation makes exactly one
\* forward pass and one choice whatever max_new_tokens is, and, read to
\* its end, it terminates.
C7_EOSFirstOneStep ==
    /\ [](\A r \in Reqs :
            (chosen[r] # <<>> /\ chosen[r][1] = eos_token_id) =>
                /\ Len(chosen[r]) = 1
                /\ Len(calls[r]) = 1
                /\ iter[r] = 1)
    /\ \A r \in Reqs :
          (chosen[r] # <<>> /\ chosen[r][1] = eos_token_id) ~> (pc[r] = "done")

\* A request with budget for more than one step has ended after the one
\* step that chose EOS.
C7_Witness ==
    \E r \in Reqs :
        /\ pc[r] = "done"
        /\ request[r].max_new_tokens >= 2
        /\ chosen[r] = <<eos_token_id>>
        /\ Len(calls[r]) = 1

\* C8: under strategy greedy every chosen id is the arg-max of the scores the
\* model returned for that step, whatever the temperature: the choice is the
\* one temperature 1.0 gives.
C8_GreedyIgnoresTemperature ==
    \A r \in Reqs :
        request[r].strategy = "greedy" =>
            \A j \in 1..Len(chosen[r]) :
                chosen[r][j] = argmax(ModelLogits(GPT2_MODEL, calls[r][j]))

\* C9: a request with an empty prompt, temperature <= 0 or max_new_tokens
\* <= 0 is rejected at the boundary: it never reaches the generator, yields
\* no record and makes no forward pass.
C9_InvalidRejected ==
    \A r \in Reqs :
        (pc[r] # "absent" /\ (\/ request[r].prompt = ""
                              \/ request[r].temperature <= 0
                              \/ request[r].max_new_tokens <= 0)) =>
            /\ pc[r] \in {"received", "rejected"}
            /\ out[r] = <<>>
            /\ calls[r] = <<>>

\* C10: a request whose model_id names no loaded model is rejected before any
\* generation: no forward pass runs and no token event is yielded for it.
C10_UnknownModelRejected ==
    \A r \in Reqs :
        request[r].model_id # LoadedModelId =>
            /\ calls[r] = <<>>
            /\ TokenEvents(out[r]) = <<>>

\* C11: when the model is not loaded the generator yields the error record
\* and nothing else: no token event and no finished=true event, before or
\* after it, and neither the tokenizer nor the model is called.
C11_NotLoadedFailsFast ==
    GPT2_MODEL = "None" =>
        \A r \in Reqs :
            /\ out[r] \in {<<>>, <<ErrorRecord>>}
            /\ pc[r] \in {"yield_error", "done"} => out[r] = <<ErrorRecord>>
            /\ pc[r] \notin {"forward", "yield_token", "sleep", "yield_final", "raised"}
            /\ curr_input_ids[r] = <<>>
            /\ iter[r] = 0
            /\ calls[r] = <<>>
            /\ chosen[r] = <<>>

\* A request with a prompt was answered by the error record alone.
C11_Witness ==
    /\ GPT2_MODEL = "None"
    /\ \E r \in Reqs :
          /\ request[r].prompt # ""
          /\ request[r].max_new_tokens > 0
          /\ pc[r] = "done"
          /\ out[r] = <<ErrorRecord>>

\* C12: under strategy top_k with top_k larger than the vocabulary the branch
\* masks no entry: every id stays a candidate, as when nothing is filtered,
\* and neither torch.topk nor torch.multinomial raises.
C12_TopKBeyondVocabulary ==
    \A r \in Reqs :
        (request[r].strategy = "top_k" /\ request[r].top_k > VocabSize) =>
            /\ unmasked[r] = Vocab
            /\ raised_by[r] \notin {"topk", "multinomial"}
            /\ pc[r] = "forward" =>
                  KeepSets("top_k", ApplyTemperature(ModelLogits(GPT2_MODEL, curr_input_ids[r]),
                                                     request[r].temperature),
                           request[r].top_k, request[r].top_p)
                      = KeepSets("greedy", ApplyTemperature(ModelLogits(GPT2_MODEL, curr_input_ids[r]),
                                                            request[r].temperature),
                                 request[r].top_k, request[r].top_p)

\* With top_k beyond the vocabulary an id of the lowest score was sampled
\* although another id scored higher.
C12_Witness ==
    \E r \in Reqs :
        /\ request[r].strategy = "top_k"
        /\ request[r].top_k > VocabSize
        /\ pc[r] = "done"
        /\ Len(chosen[r]) = 1
        /\ \A v \in Vocab : table_scores[chosen[r][1]] <= table_scores[v]
        /\ \E v \in Vocab : table_scores[chosen[r][1]] < table_scores[v]

\* The temperature-scaled scores of the last forward pass of r.
LastLogits(r) ==
    ApplyTemperature(ModelLogits(GPT2_MODEL, Last(calls[r])), request[r].temperature)

\* The last step of r ran its strategy branch to the end.
StepChosen(r) == calls[r] # <<>> /\ Len(chosen[r]) = Len(calls[r])

\* C13: under strategy top_p, for every table of scores and every top_p from
\* 0 to 1, the set of ids left unmasked is never empty and holds an id of the
\* highest score, also when that id alone has more probability than top_p;
\* torch.multinomial is never given an empty nucleus.
C13_NucleusKeepsTop ==
    \A r \in Reqs :
        request[r].strategy = "top_p" =>
            /\ unmasked[r] # {}
            /\ raised_by[r] # "multinomial"
            /\ StepChosen(r) =>
                  \E v \in unmasked[r] : \A u \in Vocab : LastLogits(r)[u] <= LastLogits(r)[v]

\* With top_p = 0 the nucleus was the one id of the highest score, whose
\* probability alone exceeds top_p.
C13_Witness ==
    \E r \in Reqs :
        /\ request[r].strategy = "top_p"
        /\ request[r].top_p = 0
        /\ pc[r] = "done"
        /\ StepChosen(r)
        /\ unmasked[r] = {chosen[r][1]}
        /\ \A u \in Vocab \ {chosen[r][1]} : LastLogits(r)[u] < LastLogits(r)[chosen[r][1]]

\* The forward passes in progress on the loaded model.
ForwardsInProgress ==
    Cardinality({r \in Reqs : pc[r] = "forward"}) + (IF prob.pc = "forward" THEN 1 ELSE 0)

\* C14: in every interleaving of the requests served by one loaded model at
\* most one forward pass is in progress, and while the forward pass of a
\* request is in progress no other request takes a step and the request is
\* not cancelled: control is given up only between steps.
C14_OneForwardAtATime ==
    /\ [](ForwardsInProgress <= 1)
    /\ [][\A r \in Reqs : pc[r] = "forward" =>
              /\ pc'[r] \in {"forward", "yield_token", "raised"}
              /\ prob' = prob
              /\ \A q \in Reqs \ {r} : pc'[q] = pc[q] /\ out'[q] = out[q]]_vars

\* Between the first and the second step of one request the forward pass of
\* another request is in progress.
C14_Witness ==
    \E r, q \in Reqs :
        /\ r # q
        /\ request[r].max_new_tokens = 2
        /\ Len(chosen[r]) = 1
        /\ pc[r] = "sleep"
        /\ pc[q] = "forward"

\* The token text a record carries ('' when it has no token field).
TokenText(e) == IF "token" \in DOMAIN e THEN e.token ELSE <<>>

\* The text a streaming caller has after appending the token text of every
\* record in the order of arrival.
StreamedText(records) == Concat([j \in 1..Len(records) |-> TokenText(records[j])])

RECURSIVE NonStreaming(_)
\* Non-streaming mode: the same sequence of events is drained, the framing is
\* dropped and the token text of every event but the terminal one is
\* concatenated into one string.
NonStreaming(records) ==
    IF records = <<>> THEN <<>>
    ELSE LET e == records[1]
         IN  (IF IsToken(e) THEN e.token ELSE <<>>) \o NonStreaming(Tail(records))

\* C15: for the same request and the same random choices, hence the same
\* sequence of events, the token texts of the streamed events concatenated in
\* the order of emission are the string non-streaming mode builds by draining
\* that sequence and ignoring the terminal event.
C15_StreamedEqualsNonStreaming ==
    \A r \in Reqs : StreamedText(out[r]) = NonStreaming(out[r])

\* A stream of two tokens and the terminal event was read to its end.
C15_Witness ==
    \E r \in Reqs :
        /\ pc[r] = "done"
        /\ Len(TokenEvents(out[r])) = 2
        /\ HasFinal(out[r])
        /\ NonStreaming(out[r]) = decode(chosen[r][1]) \o decode(chosen[r][2])

IsPrefix(a, b) == Len(a) <= Len(b) /\ SubSeq(b, 1, Len(a)) = a

\* C16: when the forward pass of step n fails, the n-1 token events yielded
\* before stay as they were, no record is yielded after the failure, and the
\* model is not called again: it has been called exactly n times.
C16_FailureKeepsEmitted ==
    /\ [](\A r \in Reqs :
            /\ Len(calls[r]) <= Len(chosen[r]) + 1
            /\ (pc[r] = "raised" /\ raised_by[r] = "model") =>
                  /\ Len(calls[r]) = iter[r]
                  /\ Len(TokenEvents(out[r])) = iter[r] - 1
                  /\ out[r] = [j \in 1..(iter[r] - 1) |-> TokenEvent(chosen[r][j])])
    /\ [][\A r \in Reqs :
              /\ IsPrefix(out[r], out'[r])
              /\ pc[r] = "raised" =>
                    /\ pc'[r] = "raised"
                    /\ out'[r] = out[r]
                    /\ calls'[r] = calls[r]]_vars

\* The forward pass of the second step failed after one token event.
C16_Witness ==
    \E r \in Reqs :
        /\ pc[r] = "raised"
        /\ raised_by[r] = "model"
        /\ iter[r] = 2
        /\ Len(calls[r]) = 2
        /\ Len(out[r]) = 1
        /\ IsToken(out[r][1])

\* C17: every generation owns its sequence of ids: in every interleaving of
\* two executions of stream_generator the input of each forward pass of a
\* request is its own prompt ids followed by its own chosen ids, and a step
\* of one request leaves the sequence of the other as it was.
C17_OwnSequence ==
    /\ [](\A r \in Reqs :
            /\ IsPrefix(curr_input_ids[r], tokenizer(request[r].prompt) \o chosen[r])
            /\ \A j \in 1..Len(calls[r]) :
                  calls[r][j] = tokenizer(request[r].prompt) \o SubSeq(chosen[r], 1, j - 1))
    /\ [][\A r, q \in Reqs :
              (r # q /\ pc'[r] # pc[r]) => curr_input_ids'[q] = curr_input_ids[q]]_vars

\* Two requests with different prompts chose different ids in their first
\* steps and each has begun its second forward pass.
C17_Witness ==
    \E r, q \in Reqs :
        /\ request[r].prompt # request[q].prompt
        /\ Len(calls[r]) = 2
        /\ Len(calls[q]) = 2
        /\ chosen[r][1] # chosen[q][1]
        /\ calls[r][2] # calls[q][2]
        /\ pc[r] = "forward"
        /\ pc[q] = "sleep"

\* The temperature-scaled scores of forward pass j of r.
StepLogits(r, j) ==
    ApplyTemperature(ModelLogits(GPT2_MODEL, calls[r][j]), request[r].temperature)

\* C18: a strategy value that is none of the recognized names makes every
\* step choose the id strategy = greedy chooses, the arg-max of the scores;
\* nothing is masked and neither torch.topk nor torch.multinomial is called,
\* so the strategy branch raises nothing.
C18_UnknownStrategyIsGreedy ==
    \A r \in Reqs :
        request[r].strategy \notin Strategies =>
            /\ unmasked[r] = Vocab
            /\ raised_by[r] \notin {"topk", "multinomial"}
            /\ \A j \in 1..Len(chosen[r]) :
                  {chosen[r][j]} = Sample("greedy", StepLogits(r, j), Vocab)

\* A request with an unknown strategy name and top_k = 0 was served to its
\* end on scores that are not all equal.
C18_Witness ==
    \E r \in Reqs :
        /\ request[r].strategy \notin Strategies
        /\ request[r].top_k = 0
        /\ pc[r] = "done"
        /\ Len(chosen[r]) = request[r].max_new_tokens
        /\ \E v \in Vocab : table_scores[v] < table_scores[chosen[r][1]]
        /\ chosen[r][1] # 0

\* C19: whenever the generator is suspended at the yield of a token event,
\* the id of that event is already appended: curr_input_ids is the prompt ids
\* followed by the ids of all the token events yielded so far.
C19_AppendedBeforeEmission ==
    \A r \in Reqs :
        pc[r] = "yield_token" =>
            /\ Len(TokenEvents(out[r])) = Len(chosen[r])
            /\ curr_input_ids[r] = tokenizer(request[r].prompt) \o chosen[r]

\* C20: under strategy top_k with k = min(top_k, vocabulary size) >= 1 the
\* branch leaves exactly k entries unmasked, none of them scoring below a
\* masked one, also when several entries tie with the k-th highest score.
C20_ExactlyKUnmasked ==
    \A r \in Reqs :
        (request[r].strategy = "top_k" /\ request[r].top_k >= 1 /\ StepChosen(r)) =>
            /\ Cardinality(unmasked[r]) = Min(request[r].top_k, VocabSize)
            /\ \A v \in unmasked[r] : \A u \in Vocab \ unmasked[r] :
                  LastLogits(r)[u] <= LastLogits(r)[v]

\* The length of the smallest prefix of the sorted order s whose cumulative
\* probability exceeds top_p (in tenths); the whole order when none does.
NucleusLen(logits, s, top_p) ==
    LET exceeding == {j \in 1..VocabSize :
                         10 * CumWeight(logits, s, j) > top_p * CumWeight(logits, s, VocabSize)}
    IN  IF exceeding = {} THEN VocabSize
        ELSE CHOOSE j \in exceeding : \A i \in exceeding : j <= i

\* C21: under strategy top_p the entries left unmasked are exactly the
\* smallest prefix of the entries sorted by descending probability whose
\* cumulative probability exceeds top_p, all the entries when no prefix
\* exceeds it; a prefix whose cumulative probability equals top_p is extended
\* by one more entry.
C21_NucleusIsSmallestPrefix ==
    \A r \in Reqs :
        (request[r].strategy = "top_p" /\ StepChosen(r)) =>
            \E s \in SortedOrders(LastLogits(r)) :
                unmasked[r] = {s[j] : j \in 1..NucleusLen(LastLogits(r), s, request[r].top_p)}

\* All scores are equal and top_p = 0.5: the first two entries sum to
\* exactly top_p and a third entry is kept.
C21_Witness ==
    \E r \in Reqs :
        /\ request[r].strategy = "top_p"
        /\ request[r].top_p = 5
        /\ pc[r] = "done"
        /\ StepChosen(r)
        /\ \A u, v \in Vocab : table_scores[u] = table_scores[v]
        /\ Cardinality(unmasked[r]) = 3

\* C22: under the strategies top_k and top_p the id chosen in a step is one
\* of the ids the filter of that step left unmasked: a masked entry has
\* probability zero and is never drawn, in any step.
C22_SampledIsUnmasked ==
    \A r \in Reqs :
        (request[r].strategy \in {"top_k", "top_p"} /\ StepChosen(r)) =>
            /\ Last(chosen[r]) \in unmasked[r]
            /\ Last(chosen[r]) = next_token[r]

\* In its second step a request sampled an id while other ids were masked.
C22_Witness ==
    \E r \in Reqs :
        /\ request[r].strategy \in {"top_k", "top_p"}
        /\ StepChosen(r)
        /\ Len(chosen[r]) = 2
        /\ unmasked[r] # Vocab
        /\ Cardinality(unmasked[r]) >= 2
        /\ pc[r] = "yield_token"

\* C23 as stated: whenever no forward pass is in progress, the forward passes
\* begun for a request number as many as its events with finished = false.
C23_PassesEqualEvents ==
    \A r \in Reqs :
        pc[r] # "forward" => Len(calls[r]) = Len(TokenEvents(out[r]))

\* C23, amended: as long as no step of the request has raised, the forward
\* passes number as many as the events with finished = false (one more while
\* a pass is in progress, and one more for good once a step has raised), and
\* once the event with finished = true is yielded, after EOS or at the end of
\* the step budget, the model is not called again for the request.
C23_PassesEqualEventsUnlessRaised ==
    /\ [](\A r \in Reqs :
            Len(calls[r]) = Len(TokenEvents(out[r]))
                            + (IF pc[r] \in {"forward", "raised"} THEN 1 ELSE 0))
    /\ [][\A r \in Reqs :
              HasFinal(out[r]) => (calls'[r] = calls[r] /\ pc'[r] # "forward")]_vars

\* A stream ended by EOS before its step budget was used up, with one forward
\* pass per token event.
C23_Witness ==
    \E r \in Reqs :
        /\ pc[r] = "done"
        /\ HasFinal(out[r])
        /\ Len(calls[r]) = 2
        /\ Len(chosen[r]) = 2
        /\ Len(TokenEvents(out[r])) = 2
        /\ chosen[r][2] = eos_token_id
        /\ iter[r] < request[r].max_new_tokens

\* C24: the inputs of the forward passes of a request grow monotonically: the
\* first is the encoded prompt, each later one is the one before with the id
\* chosen in between appended at its end, so the input of pass n + 1 has the
\* length of the prompt plus n; curr_input_ids only ever gets one id appended.
C24_InputsAppendOnly ==
    /\ [](\A r \in Reqs :
            /\ calls[r] # <<>> => calls[r][1] = tokenizer(request[r].prompt)
            /\ \A j \in 1..(Len(calls[r]) - 1) : calls[r][j + 1] = Append(calls[r][j], chosen[r][j])
            /\ \A j \in 1..Len(calls[r]) :
                  Len(calls[r][j]) = Len(tokenizer(request[r].prompt)) + j - 1)
    /\ [][\A r \in Reqs :
              /\ IsPrefix(curr_input_ids[r], curr_input_ids'[r])
              /\ Len(curr_input_ids'[r]) <= Len(curr_input_ids[r]) + 1]_vars

\* The third forward pass of a request got the prompt ids followed by two
\* different chosen ids.
C24_Witness ==
    \E r \in Reqs :
        /\ Len(calls[r]) = 3
        /\ Len(chosen[r]) >= 2
        /\ chosen[r][1] # chosen[r][2]
        /\ calls[r][3] = tokenizer(request[r].prompt) \o <<chosen[r][1], chosen[r][2]>>
        /\ Len(calls[r][3]) = Len(calls[r][1]) + 2

\* C25: a request with strategy top_k and top_k = 0 or negative is rejected
\* by the validation: it never reaches the loop, no forward pass is made for
\* it and torch.topk is never called with k = 0.
C25_TopKPositive ==
    \A r \in Reqs :
        (pc[r] # "absent" /\ request[r].strategy = "top_k" /\ request[r].top_k <= 0) =>
            /\ pc[r] \in {"received", "rejected"}
            /\ calls[r] = <<>>
            /\ raised_by[r] # "topk"

\* C26: two requests that differ only in parameters their strategy does not
\* read are both accepted, every step of theirs that starts from the same
\* input leaves the same candidate sets, and under greedy the event sequence
\* of one is that of the other as far as both have got.
C26_IrrelevantIgnored ==
    \A r, q \in Reqs :
        (pc[r] # "absent" /\ pc[q] # "absent" /\ DifferOnlyIrrelevant(request[r], request[q])) =>
            /\ pc[r] # "rejected"
            /\ \A j \in 1..Min(Len(calls[r]), Len(calls[q])) :
                  calls[r][j] = calls[q][j] =>
                      KeepSets(request[r].strategy, StepLogits(r, j),
                               request[r].top_k, request[r].top_p)
                          = KeepSets(request[q].strategy, StepLogits(q, j),
                                     request[q].top_k, request[q].top_p)
            /\ request[r].strategy = "greedy" =>
                  (IsPrefix(out[r], out[q]) \/ IsPrefix(out[q], out[r]))

\* C27: under strategy greedy the chosen id has the maximum score of the
\* step, and among several ids of the maximum score it is the lowest: the
\* choice is a function of the score vector.
C27_GreedyLowestIndexOfMax ==
    \A r \in Reqs :
        request[r].strategy = "greedy" =>
            \A j \in 1..Len(chosen[r]) :
                /\ \A u \in Vocab : StepLogits(r, j)[u] <= StepLogits(r, j)[chosen[r][j]]
                /\ \A u \in Vocab :
                      StepLogits(r, j)[u] = StepLogits(r, j)[chosen[r][j]] => chosen[r][j] <= u

\* Greedy chose among several ids of the maximum score, not all of them.
C27_Witness ==
    \E r \in Reqs :
        /\ request[r].strategy = "greedy"
        /\ pc[r] = "done"
        /\ Len(chosen[r]) = 1
        /\ \E u \in Vocab : u > chosen[r][1] /\ table_scores[u] = table_scores[chosen[r][1]]
        /\ \E u \in Vocab : u < chosen[r][1] /\ table_scores[u] < table_scores[chosen[r][1]]

\* C28: with the event loop scheduling fairly, each of several concurrent
\* executions of stream_generator with a loaded model goes on to yield its
\* event with finished = true, unless a step of it raises, whatever the
\* others do; and a step that does not end the generator leaves it suspended,
\* at the yield of its token, where the others can run.
C28_AllProgress ==
    /\ \A r \in Reqs :
          (pc[r] = "created" /\ GPT2_MODEL # "None")
              ~> (pc[r] = "raised" \/ (HasFinal(out[r]) /\ pc[r] = "done"))
    /\ [][\A r \in Reqs :
              (pc[r] = "forward" /\ pc'[r] # "forward") => pc'[r] \in {"yield_token", "raised"}]_vars
    /\ [][\A r \in Reqs :
              (pc[r] = "yield_token" /\ pc'[r] # "yield_token") =>
                  pc'[r] \in {"sleep", "yield_final"}]_vars

\* Both requests are between their first and their second step: neither has
\* run all its steps before the other got its turn.
C28_Witness ==
    \A r \in {1, 2} :
        /\ request[r].max_new_tokens = 2
        /\ pc[r] = "sleep"
        /\ Len(TokenEvents(out[r])) = 1
        /\ ~HasFinal(out[r])

(***************************************************************************)
(* Properties of the LSAT service.                                         *)
(***************************************************************************)
\* C29: once analyze_pattern has returned an analysis for a question, every
\* later call of analyze_pattern or analyze_pattern_stream with use_cache for
\* a question of the same context, question and options answers from the
\* cache (from_cache, or the single 'cached' record) without an LLM call;
\* and a call whose LLM result is an error writes neither the cache nor the
\* example index.
C29_CachedAnswersLaterCalls ==
    LET call == lsat.call
    IN  /\ (call.pc = "done" /\ call.use_cache /\ call.after_completed) =>
              /\ call.from_cache
              /\ ~call.llm_called
              /\ call.op = "analyze_pattern_stream" =>
                    Len(call.records) = 1 /\ call.records[1].type = "cached"
        /\ call.llm_error => ~call.wrote

\* C30: the records yielded by call_claude_streaming and forwarded by
\* analyze_pattern_stream hold at most one record of type 'complete' or
\* 'error', and it is the last one.
C30_OneTerminalRecordLast ==
    \A j \in 1..Len(lsat.call.records) :
        lsat.call.records[j].type \in {"complete", "error"} => j = Len(lsat.call.records)

====
